---- MODULE Spec2Model ----
(***************************************************************************)
(* dnscl: analysis of BIND and Pi-hole DNS query logs.                     *)
(*                                                                         *)
(* A model of the query functions of src/dnscl.py, src/dnscl_tail.py and   *)
(* src/dnscl_pihole.py.  Log lines are strings; the Python string and list *)
(* operations the functions use (in, strip, split, lower, upper, negative  *)
(* list indices, re.search with IGNORECASE) are modelled character by      *)
(* character.  One query is: a call (locals initialised), one step per     *)
(* line of the line source, and the ranking and summary at the end.        *)
(***************************************************************************)
EXTENDS Integers, Sequences, FiniteSets, TLC

(***************************************************************************)
(* Python values that are not strings.  Every dictionary key and list      *)
(* element of the programs is a piece of a line split on " ", so it holds  *)
(* no space: a string with a space in it is free to stand for None.        *)
(***************************************************************************)
None == "None "

\* The outcome of an expression that raised: the exception's name, in <>.
IndexError == "<raise IndexError>"
AttributeError == "<raise AttributeError>"
TypeError == "<raise TypeError>"
ReError == "<raise re.error>"
UnicodeDecodeError == "<raise UnicodeDecodeError>"
\* FileNotFoundError, PermissionError, IsADirectoryError
OSError == "<raise OSError>"

ValueError == "<raise ValueError>"

Exceptions ==
    {IndexError, AttributeError, TypeError, ReError, UnicodeDecodeError, OSError,
     ValueError}

IsExc(v) == v \in Exceptions

(***************************************************************************)
(* Strings                                                                 *)
(***************************************************************************)
Ch(s, i) == SubSeq(s, i, i)

\* Python: sub in s
In(sub, s) ==
    \E i \in 1..(Len(s) - Len(sub) + 1) : SubSeq(s, i, i + Len(sub) - 1) = sub

\* Python: s.startswith(pre)
StartsWith(s, pre) == Len(pre) <= Len(s) /\ SubSeq(s, 1, Len(pre)) = pre

UpperChars == "ABCDEFGHIJKLMNOPQRSTUVWXYZ"
LowerChars == "abcdefghijklmnopqrstuvwxyz"

LowerCh(c) ==
    IF \E i \in 1..Len(UpperChars) : Ch(UpperChars, i) = c
    THEN Ch(LowerChars, CHOOSE i \in 1..Len(UpperChars) : Ch(UpperChars, i) = c)
    ELSE c

UpperCh(c) ==
    IF \E i \in 1..Len(LowerChars) : Ch(LowerChars, i) = c
    THEN Ch(UpperChars, CHOOSE i \in 1..Len(LowerChars) : Ch(LowerChars, i) = c)
    ELSE c

RECURSIVE Lower(_)
\* Python: s.lower() (the string is taken by halves)
Lower(s) ==
    IF s = "" THEN ""
    ELSE IF Len(s) = 1 THEN LowerCh(s)
    ELSE Lower(SubSeq(s, 1, Len(s) \div 2))
             \o Lower(SubSeq(s, Len(s) \div 2 + 1, Len(s)))

RECURSIVE Upper(_)
\* Python: s.upper()
Upper(s) ==
    IF s = "" THEN ""
    ELSE IF Len(s) = 1 THEN UpperCh(s)
    ELSE Upper(SubSeq(s, 1, Len(s) \div 2))
             \o Upper(SubSeq(s, Len(s) \div 2 + 1, Len(s)))

\* The whitespace characters that occur in the modelled lines.
Whitespace == {" ", "\t", "\n"}

\* Python: s.strip()
Strip(s) ==
    LET kept == {i \in 1..Len(s) : Ch(s, i) \notin Whitespace}
    IN IF kept = {} THEN ""
       ELSE SubSeq(s, CHOOSE i \in kept : \A j \in kept : i <= j,
                      CHOOSE i \in kept : \A j \in kept : j <= i)

\* Python: s.split(sep) for a one-character separator: the pieces between
\* the separators, empty strings between adjacent separators, never an
\* empty list.
Split(s, sep) ==
    LET seps == {i \in 1..Len(s) : Ch(s, i) = sep}
        n == Cardinality(seps)
        \* the position of the k-th separator; 0 and Len(s) + 1 at the ends
        SepAt(k) == IF k = 0 THEN 0
                    ELSE IF k = n + 1 THEN Len(s) + 1
                    ELSE CHOOSE i \in seps :
                             Cardinality({j \in seps : j < i}) = k - 1
    IN [k \in 1..(n + 1) |-> SubSeq(s, SepAt(k - 1) + 1, SepAt(k) - 1)]

\* Python: list[i] for a 0-based index i, negative indices counting from the
\* end of the list.
Index(list, i) ==
    IF 0 <= i /\ i < Len(list) THEN list[i + 1]
    ELSE IF i < 0 /\ -i <= Len(list) THEN list[Len(list) + i + 1]
    ELSE IndexError

\* Python: v.split(sep)[0], where v may be None or the outcome of a raise.
SplitFirst(v, sep) ==
    IF IsExc(v) THEN v
    ELSE IF v = None THEN AttributeError
    ELSE Split(v, sep)[1]

(***************************************************************************)
(* re.search(pattern, string, re.IGNORECASE), for the patterns the model   *)
(* draws: literal characters, ".", the classes \d and \D, the escaped      *)
(* literal "\.", and the unterminated group "(" as the invalid pattern.    *)
(***************************************************************************)
Match == "<re.Match object>"

Digits == {"0", "1", "2", "3", "4", "5", "6", "7", "8", "9"}

RECURSIVE ReCompile(_)
\* The pattern as a sequence of atoms, or the outcome of raising re.error.
\* An atom is one character, or a backslash and the character after it.
ReCompile(p) ==
    IF p = "" THEN <<>>
    ELSE IF Ch(p, 1) = "\\"
    THEN IF Len(p) = 1 THEN ReError
         ELSE LET rest == ReCompile(SubSeq(p, 3, Len(p)))
              IN IF rest = ReError THEN ReError
                 ELSE <<SubSeq(p, 1, 2)>> \o rest
    ELSE IF Ch(p, 1) = "(" /\ ~In(")", p) THEN ReError
    ELSE LET rest == ReCompile(Tail(p))
         IN IF rest = ReError THEN ReError ELSE <<Ch(p, 1)>> \o rest

\* Whether atom a matches character c, letters compared ignoring case.
AtomMatches(a, c) ==
    IF a = "." THEN c # "\n"
    ELSE IF a = "\\d" THEN c \in Digits
    ELSE IF a = "\\D" THEN c \notin Digits
    ELSE IF Len(a) = 2 THEN Ch(a, 2) = c
    ELSE LowerCh(a) = LowerCh(c)

MatchAt(atoms, s, i) ==
    /\ i + Len(atoms) - 1 <= Len(s)
    /\ \A j \in 1..Len(atoms) : AtomMatches(atoms[j], Ch(s, i + j - 1))

\* re_search without re.IGNORECASE: a literal matches only itself.
re_search_case_sensitive(pattern, string) ==
    LET atoms == ReCompile(pattern)
        Exact(a, c) == IF Len(a) = 1 /\ a # "." THEN a = c ELSE AtomMatches(a, c)
    IN IF IsExc(string) THEN string
       ELSE IF atoms = ReError THEN ReError
       ELSE IF string = None THEN TypeError
       ELSE IF \E i \in 1..(Len(string) + 1) :
                   /\ i + Len(atoms) - 1 <= Len(string)
                   /\ \A j \in 1..Len(atoms) : Exact(atoms[j], Ch(string, i + j - 1))
       THEN Match
       ELSE None

\* A Match object or None; re.error for an invalid pattern (the pattern is
\* compiled first), TypeError for a string argument that is None.
re_search(pattern, string) ==
    LET atoms == ReCompile(pattern)
    IN IF IsExc(string) THEN string
       ELSE IF atoms = ReError THEN ReError
       ELSE IF string = None THEN TypeError
       ELSE IF \E i \in 1..(Len(string) + 1) : MatchAt(atoms, string, i)
       THEN Match
       ELSE None

(***************************************************************************)
(* Field extractors of the BIND variants (dnscl.py, dnscl_tail.py)         *)
(***************************************************************************)
\* The 0-based index of the first field equal to anchor; -1 when there is none.
FirstIndex(fields, anchor) ==
    IF \E i \in 1..Len(fields) : fields[i] = anchor
    THEN (CHOOSE i \in 1..Len(fields) :
              /\ fields[i] = anchor
              /\ \A j \in 1..(i - 1) : fields[j] # anchor) - 1
    ELSE -1

\* for field in fields: if field == anchor: return fields[field_index + offset]
\* return None
FieldAt(fields, anchor, offset) ==
    LET field_index == FirstIndex(fields, anchor)
    IN IF field_index = -1 THEN None
       ELSE Index(fields, field_index + offset)

find_domain_field(fields) == FieldAt(fields, "query:", 1)

find_ip_field(fields) == FieldAt(fields, "query:", -2)

find_rpz_domain_field(fields) == FieldAt(fields, "QNAME", 3)

find_rpz_ip_field(fields) == FieldAt(fields, "QNAME", -3)

find_record_type_field(fields) == FieldAt(fields, "query:", 3)

(***************************************************************************)
(* Field extractor of the Pi-hole variant: the anchor is the first field   *)
(* that contains the marker.                                               *)
(***************************************************************************)
FirstIndexContaining(fields, marker) ==
    IF \E i \in 1..Len(fields) : In(marker, fields[i])
    THEN (CHOOSE i \in 1..Len(fields) :
              /\ In(marker, fields[i])
              /\ \A j \in 1..(i - 1) : ~In(marker, fields[j])) - 1
    ELSE -1

find_field(fields, field_index, field_type) ==
    LET marker == IF field_type = "block_domain" THEN "0.0.0.0" ELSE "query["
        offset == CASE field_type = "domain" -> 1
                    [] field_type = "ip_address" -> 3
                    [] field_type = "block_domain" -> -2
        at == FirstIndexContaining(fields, marker)
    IN IF at = -1 THEN None
       ELSE Index(fields, field_index + at + offset)

(***************************************************************************)
(* The body of each query function's loop: what one line does to the       *)
(* function's locals.  d1 and d2 are the keys whose count goes up by one   *)
(* in the function's first and second dictionary, l1 and l2 the elements   *)
(* appended to its first and second list, count the increase of            *)
(* line_count.  exc is the exception the line raises, "" for none.         *)
(***************************************************************************)
Skip == [exc |-> "", count |-> 0, d1 |-> <<>>, d2 |-> <<>>, l1 |-> <<>>, l2 |-> <<>>]

Raise(e) == [Skip EXCEPT !.exc = e]

\* The first of the values vs that is the outcome of a raise, "" for none.
FirstExc(vs) ==
    IF \E i \in 1..Len(vs) : IsExc(vs[i])
    THEN vs[CHOOSE i \in 1..Len(vs) :
                IsExc(vs[i]) /\ \A j \in 1..(i - 1) : ~IsExc(vs[j])]
    ELSE ""

\* dnscl_ipaddress without the test for the address.
dnscl_ipaddress_any_client(line, ip_address, domain_search) ==
    LET fields == Split(Strip(line), " ")
        domain == find_domain_field(fields)
        found == re_search(domain_search, domain)
    IN IF ~(In("named", line) /\ In("query:", line)) THEN Skip
       ELSE IF ~(Len(fields) > 12) THEN Skip
       ELSE IF IsExc(domain) THEN Raise(domain)
       ELSE IF domain_search # ""
       THEN IF IsExc(found) THEN Raise(found)
            ELSE IF found = Match
            THEN [Skip EXCEPT !.d1 = <<domain>>, !.count = 1]
            ELSE Skip
       ELSE [Skip EXCEPT !.d1 = <<domain>>, !.count = 1]

\* dnscl.py: domain_dict.
dnscl_ipaddress(line, ip_address, domain_search) ==
    LET ip_address_search == ip_address \o "#"
        fields == Split(Strip(line), " ")
        domain == find_domain_field(fields)
        found == re_search(domain_search, domain)
    IN IF ~In(ip_address_search, line) THEN Skip
       ELSE IF ~(In("named", line) /\ In("query:", line)) THEN Skip
       ELSE IF ~(Len(fields) > 12) THEN Skip
       ELSE IF IsExc(domain) THEN Raise(domain)
       ELSE IF domain_search # ""
       THEN IF IsExc(found) THEN Raise(found)
            ELSE IF found = Match
            THEN [Skip EXCEPT !.d1 = <<domain>>, !.count = 1]
            ELSE Skip
       ELSE [Skip EXCEPT !.d1 = <<domain>>, !.count = 1]

\* dnscl_api.py: domain_dict.
api_dnscl_ipaddress(line, ip_address, domain_search) ==
    LET ip_address_search == ip_address \o "#"
        fields == Split(Strip(line), " ")
        domain == find_domain_field(fields)
        found == re_search(domain_search, domain)
    IN IF ~In(ip_address_search, line) THEN Skip
       ELSE IF ~(In("named", line) /\ In("query:", line)) THEN Skip
       ELSE IF ~(Len(fields) > 12) THEN Skip
       ELSE IF IsExc(domain) THEN Raise(domain)
       ELSE IF domain_search # ""
       THEN IF IsExc(found) THEN Raise(found)
            ELSE IF found = Match
            THEN [Skip EXCEPT !.d1 = <<domain>>, !.count = 1]
            ELSE Skip
       ELSE [Skip EXCEPT !.d1 = <<domain>>, !.count = 1]

\* dnscl_tail.py: domain_dict; the marker is "query", without the colon.
tail_dnscl_ipaddress(line, ip_address, domain_search) ==
    LET ip_address_search == ip_address \o "#"
        fields == Split(Strip(line), " ")
        domain == find_domain_field(fields)
        found == re_search(domain_search, domain)
    IN IF ~(In(ip_address_search, line) /\ In("named", line) /\ In("query", line))
       THEN Skip
       ELSE IF ~(Len(fields) > 12) THEN Skip
       ELSE IF IsExc(domain) THEN Raise(domain)
       ELSE IF domain_search # ""
       THEN IF IsExc(found) THEN Raise(found)
            ELSE IF found = Match
            THEN [Skip EXCEPT !.d1 = <<domain>>, !.count = 1]
            ELSE Skip
       ELSE [Skip EXCEPT !.d1 = <<domain>>, !.count = 1]

\* dnscl_domain with the domain_dict increment left out of the branch without
\* an address filter.
dnscl_domain_uncounted(line, domain_name, ip_search) ==
    LET fields == Split(Strip(line), " ")
        ip_address == SplitFirst(find_ip_field(fields), "#")
        domain_name_field == find_domain_field(fields)
        found == re_search(domain_name, domain_name_field)
        raised == FirstExc(<<ip_address, domain_name_field, found>>)
    IN IF ~In("query:", line) THEN Skip
       ELSE IF raised # "" THEN Raise(raised)
       ELSE IF found # Match THEN Skip
       ELSE IF ip_search # ""
       THEN IF In(ip_search, line)
            THEN [Skip EXCEPT !.d1 = <<ip_address>>,
                              !.d2 = <<domain_name_field>>, !.count = 1]
            ELSE Skip
       ELSE [Skip EXCEPT !.d1 = <<ip_address>>, !.count = 1]

\* dnscl.py: ip_dict, domain_dict.
dnscl_domain(line, domain_name, ip_search) ==
    LET fields == Split(Strip(line), " ")
        ip_address == SplitFirst(find_ip_field(fields), "#")
        domain_name_field == find_domain_field(fields)
        found == re_search(domain_name, domain_name_field)
        raised == FirstExc(<<ip_address, domain_name_field, found>>)
        counted == [Skip EXCEPT !.d1 = <<ip_address>>,
                                !.d2 = <<domain_name_field>>, !.count = 1]
    IN IF ~In("query:", line) THEN Skip
       ELSE IF raised # "" THEN Raise(raised)
       ELSE IF found # Match THEN Skip
       ELSE IF ip_search # ""
       THEN IF In(ip_search, line) THEN counted ELSE Skip
       ELSE counted

\* dnscl_tail.py: ip_dict, domain_list.
tail_dnscl_domain(line, domain_name, ip_search) ==
    LET fields == Split(Strip(line), " ")
        ip_address == SplitFirst(find_ip_field(fields), "#")
        domain_name_field == find_domain_field(fields)
        found == re_search(domain_name, domain_name_field)
        raised == FirstExc(<<ip_address, domain_name_field, found>>)
        counted == [Skip EXCEPT !.d1 = <<ip_address>>,
                                !.l1 = <<domain_name_field>>, !.count = 1]
    IN IF ~In("query:", line) THEN Skip
       ELSE IF raised # "" THEN Raise(raised)
       ELSE IF found # Match THEN Skip
       ELSE IF ip_search # ""
       THEN IF In(ip_search, line) THEN counted ELSE Skip
       ELSE counted

\* dnscl_rpz without the test for "SOA".
dnscl_rpz_counts_soa(line, ip_address) ==
    LET ip_address_search == ip_address \o "#"
        fields == Split(Strip(line), " ")
        rpz_domain == SplitFirst(find_rpz_domain_field(fields), "/")
    IN IF ~In(ip_address_search, line) THEN Skip
       ELSE IF ~In("QNAME", line) THEN Skip
       ELSE IF IsExc(rpz_domain) THEN Raise(rpz_domain)
       ELSE IF Len(fields) > 11
       THEN [Skip EXCEPT !.d1 = <<rpz_domain>>, !.count = 1]
       ELSE Skip

\* rpz_dict.
dnscl_rpz(line, ip_address) ==
    LET ip_address_search == ip_address \o "#"
        fields == Split(Strip(line), " ")
        rpz_domain == SplitFirst(find_rpz_domain_field(fields), "/")
    IN IF ~In(ip_address_search, line) THEN Skip
       ELSE IF ~(In("QNAME", line) /\ ~In("SOA", line)) THEN Skip
       ELSE IF IsExc(rpz_domain) THEN Raise(rpz_domain)
       ELSE IF Len(fields) > 11
       THEN [Skip EXCEPT !.d1 = <<rpz_domain>>, !.count = 1]
       ELSE Skip

\* rpz_ip_dict, rpz_domain_list.
dnscl_rpz_domain(line, domain_rpz_name) ==
    LET fields == Split(Strip(line), " ")
        ip_address == SplitFirst(find_rpz_ip_field(fields), "#")
        rpz_domain == SplitFirst(find_rpz_domain_field(fields), "/")
        raised == FirstExc(<<ip_address, rpz_domain>>)
    IN IF ~In(domain_rpz_name, line) THEN Skip
       ELSE IF ~(In("QNAME", line) /\ ~In("SOA", line)) THEN Skip
       ELSE IF ~(In(Lower(domain_rpz_name), Lower(line)) /\ Len(fields) > 11)
       THEN Skip
       ELSE IF raised # "" THEN Raise(raised)
       ELSE [Skip EXCEPT !.d1 = <<ip_address>>,
                         !.l1 = IF domain_rpz_name # "" THEN <<rpz_domain>> ELSE <<>>,
                         !.count = 1]

\* record_dict, domain_list.
dnscl_record_ip(line, ip_address) ==
    LET ip_address_search == ip_address \o "#"
        fields == Split(Strip(line), " ")
        record_type == find_record_type_field(fields)
        domain == find_domain_field(fields)
    IN IF ~In(ip_address_search, line) THEN Skip
       ELSE IF ~In("query:", line) THEN Skip
       ELSE IF IsExc(record_type) THEN Raise(record_type)
       ELSE IF Len(fields) > 12
       THEN IF IsExc(domain) THEN Raise(domain)
            ELSE [Skip EXCEPT !.d1 = <<record_type>>, !.l1 = <<domain>>,
                              !.count = 1]
       ELSE Skip

\* record_dict, ip_list, domain_list.
dnscl_record_domain(line, domain_name) ==
    LET fields == Split(Strip(line), " ")
        ip_address == SplitFirst(find_ip_field(fields), "#")
        record_type == find_record_type_field(fields)
        domain == IF domain_name # "" THEN find_domain_field(fields) ELSE ""
        raised == FirstExc(<<ip_address, record_type, domain>>)
    IN IF ~(In(Lower(domain_name), Lower(line)) /\ In("query:", line)) THEN Skip
       ELSE IF raised # "" THEN Raise(raised)
       ELSE [Skip EXCEPT !.d1 = <<record_type>>, !.l1 = <<ip_address>>,
                         !.l2 = IF domain_name # "" THEN <<domain>> ELSE <<>>,
                         !.count = 1]

\* record_domain_dict, record_ip_list.
dnscl_record_type(line, record_type) ==
    LET fields == Split(Strip(line), " ")
        type_field == find_record_type_field(fields)
        record_domain == find_domain_field(fields)
        ip_address == SplitFirst(find_ip_field(fields), "#")
        raised == FirstExc(<<record_domain, ip_address>>)
    IN IF ~In("query:", line) THEN Skip
       ELSE IF IsExc(type_field) THEN Raise(type_field)
       ELSE IF Upper(record_type) # type_field THEN Skip
       ELSE IF raised # "" THEN Raise(raised)
       ELSE [Skip EXCEPT !.d1 = <<record_domain>>, !.l1 = <<ip_address>>,
                         !.count = 1]

\* dnscl_pihole.py: domain_list.
pihole_dnscl_ipaddress(line, ip_address) ==
    LET fields == Split(Strip(line), " ")
        ip_field == find_field(fields, 0, "ip_address")
        domain == find_field(fields, 0, "domain")
        counted == IF IsExc(domain) THEN Raise(domain)
                   ELSE [Skip EXCEPT !.l1 = <<domain>>, !.count = 1]
    IN IF ~In("query[", line) THEN Skip
       ELSE IF ip_address # ""
       THEN IF IsExc(ip_field) THEN Raise(ip_field)
            ELSE IF ip_field = ip_address THEN counted ELSE Skip
       ELSE counted

\* dnscl_pihole.py: ip_list, domain_list.
pihole_dnscl_domain(line, domain_name) ==
    LET fields == Split(Strip(line), " ")
        domain_name_field == find_field(fields, 0, "domain")
        ip_address == find_field(fields, 0, "ip_address")
        found == re_search(domain_name, domain_name_field)
        raised == FirstExc(<<domain_name_field, ip_address, found>>)
    IN IF ~In("query[", line) THEN Skip
       ELSE IF raised # "" THEN Raise(raised)
       ELSE IF found # Match THEN Skip
       ELSE [Skip EXCEPT !.l1 = <<ip_address>>,
                         !.l2 = IF domain_name # ""
                                THEN <<domain_name_field>> ELSE <<>>,
                         !.count = 1]

\* dnscl_pihole.py: block_list.
pihole_dnscl_blocklist(line, ip_address) ==
    LET fields == Split(Strip(line), " ")
        block_domain == find_field(fields, 0, "block_domain")
    IN IF ~In(ip_address, line) THEN Skip
       ELSE IF ~In("is 0.0.0.0", line) THEN Skip
       ELSE IF IsExc(block_domain) THEN Raise(block_domain)
       ELSE [Skip EXCEPT !.l1 = <<block_domain>>, !.count = 1]

(***************************************************************************)
(* Dictionaries, ranking and the line sources                              *)
(***************************************************************************)
\* A defaultdict(int) is the sequence of its items [k, n] in insertion order.
Keys(dict) == {dict[i].k : i \in 1..Len(dict)}

\* dict[key] = 1 in place of dict[key] += 1.
DictIncr_assign(dict, key) ==
    IF key \in Keys(dict)
    THEN [i \in 1..Len(dict) |->
              IF dict[i].k = key THEN [dict[i] EXCEPT !.n = 1] ELSE dict[i]]
    ELSE Append(dict, [k |-> key, n |-> 1])

\* dict[key] += 1
DictIncr(dict, key) ==
    IF key \in Keys(dict)
    THEN [i \in 1..Len(dict) |->
              IF dict[i].k = key THEN [dict[i] EXCEPT !.n = @ + 1] ELSE dict[i]]
    ELSE Append(dict, [k |-> key, n |-> 1])

\* DictIncrAll that adds 2 to the count of the key.
DictIncrAll_twice(dict, keys) ==
    IF keys = <<>> THEN dict ELSE DictIncr(DictIncr(dict, keys[1]), keys[1])

\* dict[key] += 1 for each of keys (none or one key per line).
DictIncrAll(dict, keys) == IF keys = <<>> THEN dict ELSE DictIncr(dict, keys[1])

RECURSIVE SumCounts(_)
SumCounts(items) ==
    IF items = <<>> THEN 0 ELSE items[1].n + SumCounts(Tail(items))

\* InsertByCount that places item before the elements of equal count.
InsertByCount_before_ties(ranked, item) ==
    LET before == {i \in 1..Len(ranked) : ranked[i].n > item.n}
        at == IF before = {} THEN 0 ELSE CHOOSE i \in before : \A j \in before : j <= i
    IN SubSeq(ranked, 1, at) \o <<item>> \o SubSeq(ranked, at + 1, Len(ranked))

\* item placed behind every element of ranked whose count is at least its own.
InsertByCount(ranked, item) ==
    LET before == {i \in 1..Len(ranked) : ranked[i].n >= item.n}
        at == IF before = {} THEN 0 ELSE CHOOSE i \in before : \A j \in before : j <= i
    IN SubSeq(ranked, 1, at) \o <<item>> \o SubSeq(ranked, at + 1, Len(ranked))

RECURSIVE SortFrom(_, _)
SortFrom(items, ranked) ==
    IF items = <<>> THEN ranked
    ELSE SortFrom(Tail(items), InsertByCount(ranked, items[1]))

\* sort_dict that returns the items in the dictionary's order.
sort_dict_unsorted(dict_unsorted) == dict_unsorted

\* sorted(dict.items(), key=count, reverse=True): descending by count, items
\* of equal count in the dictionary's order (the sort is stable).
sort_dict(dict_unsorted) == SortFrom(dict_unsorted, <<>>)

\* Code point order of characters: printable ASCII (the backquote, which no
\* modelled line holds, left out), and the high byte "~" above them.
OrdTable ==
    " !\"#$%&'()*+,-./0123456789:;<=>?@ABCDEFGHIJKLMNOPQRSTUVWXYZ[\\]^_abcdefghijklmnopqrstuvwxyz{|}"

Ord(c) ==
    IF \E i \in 1..Len(OrdTable) : Ch(OrdTable, i) = c
    THEN CHOOSE i \in 1..Len(OrdTable) : Ch(OrdTable, i) = c
    ELSE Len(OrdTable) + 1

RECURSIVE StrLess(_, _)
\* Python: a < b on strings
StrLess(a, b) ==
    IF b = "" THEN FALSE
    ELSE IF a = "" THEN TRUE
    ELSE IF Ch(a, 1) = Ch(b, 1) THEN StrLess(Tail(a), Tail(b))
    ELSE Ord(Ch(a, 1)) < Ord(Ch(b, 1))

\* The number of elements of list equal to v.
Occurrences(list, v) == Cardinality({i \in 1..Len(list) : list[i] = v})

RECURSIVE RankGroups(_, _)
\* The items [k, n] of the values vs counted in list, descending by (n, k).
RankGroups(list, vs) ==
    IF vs = {} THEN <<>>
    ELSE LET top == CHOOSE v \in vs : \A w \in vs \ {v} :
                        \/ Occurrences(list, v) > Occurrences(list, w)
                        \/ /\ Occurrences(list, v) = Occurrences(list, w)
                           /\ StrLess(w, v)
         IN <<[k |-> top, n |-> Occurrences(list, top)]>>
                \o RankGroups(list, vs \ {top})

\* dnscl_pihole.py: [(len(list(dcount)), dname) for dname, dcount in
\* groupby(sorted(list))] and then .sort(reverse=True).
group_sort(list) == RankGroups(list, {list[i] : i \in 1..Len(list)})

\* Python: set(list)
SetOf(list) == {list[i] : i \in 1..Len(list)}

RECURSIVE SortedSeq(_)
\* Python: sorted(values), for a set of strings
SortedSeq(values) ==
    IF values = {} THEN <<>>
    ELSE LET least == CHOOSE v \in values : \A w \in values \ {v} : StrLess(v, w)
         IN <<least>> \o SortedSeq(values \ {least})

\* Python: reversed(sequence)
Reversed(sequence) ==
    [i \in 1..Len(sequence) |-> sequence[Len(sequence) + 1 - i]]

\* The hash seeds a process may start with (PYTHONHASHSEED is random).
HashSeeds == {0, 1}

\* The seed cannot be observed before the process iterates over a set: the
\* model draws it then, and keeps it for the rest of the process.
SeedNotUsed == -1

\* for v in set(list): the order in which a set of strings is iterated is
\* that of the strings' hashes, which depend on the seed of the process.
\* Two seeds stand for that dependence, one order each.
set_iteration(values, seed) ==
    IF seed = 0 THEN SortedSeq(values) ELSE Reversed(SortedSeq(values))

DefaultTail == 60

\* tail that returns the first num_lines lines of the file.
tail_first_lines(file_lines, num_lines) ==
    IF num_lines >= Len(file_lines) THEN file_lines
    ELSE SubSeq(file_lines, 1, num_lines)

\* tail -n num_lines filename: the last num_lines lines of the file.
tail(file_lines, num_lines) ==
    IF num_lines >= Len(file_lines) THEN file_lines
    ELSE SubSeq(file_lines, Len(file_lines) - num_lines + 1, Len(file_lines))

\* if tail_num: tail(filename, tail_num) else: tail(filename)
tail_source(file_lines, tail_num) ==
    IF tail_num # 0 THEN tail(file_lines, tail_num)
    ELSE tail(file_lines, DefaultTail)

\* A byte that is no valid UTF-8 on its own: 0xE9, a letter in ISO-8859-1.
\* The lines of the model are ASCII strings and write that byte as "~".
HighBytes == {"~"}

\* open(filename, encoding="ISO-8859-1"): every byte is a character.
decode_latin1(bytes) == bytes

\* line.decode("utf-8"), and open(FILENAME, encoding="UTF-8")
decode_utf8(bytes) ==
    IF \E i \in 1..Len(bytes) : Ch(bytes, i) \in HighBytes
    THEN UnicodeDecodeError
    ELSE bytes

(***************************************************************************)
(* Inputs: log lines as the bytes of the file, filters, files              *)
(***************************************************************************)
\* BIND query lines.
QueryCom ==
    "Nov 5 10:00:01 ns1 named[812]: client @0x7f0 10.0.0.5#40001 (example.com): query: example.com IN A +E(0)K (10.0.0.53)\n"
QueryOrg ==
    "Nov 5 10:00:02 ns1 named[812]: client @0x7f0 10.0.0.5#40001 (example.org): query: example.org IN A +E(0)K (10.0.0.53)\n"
QueryUpper ==
    "Nov 5 10:00:03 ns1 named[812]: client @0x7f0 10.0.0.10#40002 (Example.COM): query: Example.COM IN AAAA +E(0)K (10.0.0.53)\n"
QueryOther ==
    "Nov 5 10:00:04 ns1 named[812]: client @0x7f0 110.0.0.1#40003 (test7.net): query: test7.net IN A +E(0)K (10.0.0.53)\n"
\* A query line with the record type in lower case.
QueryLowerType ==
    "Nov 5 10:00:04 ns1 named[812]: client @0x7f0 10.0.0.10#40002 (example.net): query: example.net IN aaaa +E(0)K (10.0.0.53)\n"
\* A line of the query-errors category: "query" without the colon, 16 fields.
QueryFailed ==
    "Nov 5 10:00:16 ns1 named[812]: client @0x7f0 10.0.0.5#40001 (example.com): query failed (SERVFAIL) for example.com/IN/A at ../../lib/ns/query.c\n"
\* A query line cut short: 8 fields.
QueryShort ==
    "named[812]: client 10.0.0.5#40001 (example.com): query: example.com IN A\n"
\* The marker only as part of a longer field.
QueryGlued ==
    "Nov 5 10:00:05 ns1 named[812]: client @0x7f0 10.0.0.5#40001 (example.com): xquery: example.com IN A +E(0)K (10.0.0.53)\n"
\* The marker as the last field of 13.
QueryLast ==
    "Nov 5 10:00:06 ns1 named[812]: client @0x7f0 10.0.0.5#40001 (example.com): view internal: res query:\n"
\* The marker as the first field.
QueryFirst ==
    "query: example.com IN A +E(0)K (10.0.0.53) named[812]: 10.0.0.5#40001\n"
\* A query line with a byte that is not UTF-8.
QueryLatin ==
    "Nov 5 10:00:07 ns1 named[812]: client @0x7f0 10.0.0.5#40001 (caf~.example): query: caf~.example IN A +E(0)K (10.0.0.53)\n"
\* Policy-zone hit lines.
RpzHit ==
    "Nov 5 10:00:08 ns1 named[812]: client @0x7f0 10.0.0.5#40001 (bad.example): rpz QNAME NXDOMAIN rewrite bad.example/A/IN via bad.example.rpz.local\n"
RpzSoa ==
    "Nov 5 10:00:09 ns1 named[812]: client @0x7f0 10.0.0.5#40001 (bad.example): rpz QNAME NXDOMAIN rewrite bad.example/SOA/IN via bad.example.rpz.local\n"
RpzGlued ==
    "Nov 5 10:00:10 ns1 named[812]: client @0x7f0 10.0.0.5#40001 (bad.example): rpz-QNAME NXDOMAIN rewrite bad.example/A/IN via bad.example.rpz.local\n"
RpzShort ==
    "client 10.0.0.5#40001 (bad.example): rpz QNAME NXDOMAIN rewrite bad.example/A/IN via bad.example.rpz.local\n"
\* Pi-hole lines.
PiQuery ==
    "Nov 5 10:00:11 dnsmasq[77]: query[A] example.com from 10.0.0.5\n"
PiQueryUpper ==
    "Nov 5 10:00:12 dnsmasq[77]: query[AAAA] Example.ORG from 10.0.0.10\n"
PiQueryShort ==
    "Nov 5 10:00:13 dnsmasq[77]: query[A] example.com\n"
PiBlocked ==
    "Nov 5 10:00:14 dnsmasq[77]: /etc/pihole/gravity.list ads.example is 0.0.0.0\n"
PiQueryLatin ==
    "Nov 5 10:00:15 dnsmasq[77]: query[A] caf~.example from 10.0.0.5\n"

BindLines ==
    {QueryCom, QueryOrg, QueryUpper, QueryOther, QueryLowerType, QueryFailed,
     QueryShort, QueryGlued,
     QueryLast, QueryFirst, QueryLatin, RpzHit, RpzSoa, RpzGlued, RpzShort}

PiLines == {PiQuery, PiQueryUpper, PiQueryShort, PiBlocked, PiQueryLatin}

\* The longest file whose lines are drawn freely.
MaxLines == 2

SeqsUpTo(S, n) == UNION {[1..m -> S] : m \in 0..n}

\* A file one line longer than the default tail window, its first line a query.
LongFile == [i \in 1..(DefaultTail + 1) |-> IF i = 1 THEN QueryCom ELSE QueryOrg]

\* Three lines of client 10.0.0.5: example.com twice, example.org once.
ScenarioA == <<QueryCom, QueryCom, QueryOrg>>

\* A log with one line of the query-errors category.
ErrorLog == <<QueryFailed>>

\* The lines files are made of freely: QueryOrg differs from QueryCom in
\* the name alone and comes in the two files above, QueryFailed in ErrorLog.
FreeLines == BindLines \ {QueryOrg, QueryFailed}

BindFiles == SeqsUpTo(FreeLines, MaxLines) \cup {LongFile, ScenarioA, ErrorLog}

PiFiles == SeqsUpTo(PiLines, MaxLines)

Addresses == {"", "10.0.0.5", "10.0.0.1"}

\* Name filters: regular expressions.
Names == {"", "example", "EXAMPLE", "\\d", "\\D", "("}

\* Name filters of the modes that search the line for the filter.
PlainNames == {"", "example", "EXAMPLE", "named"}

RecordTypes == {"", "A", "a", "AAAA"}

\* The query functions: the functions of dnscl.py and of dnscl_tail.py have
\* the same names and parameters, dnscl_tail.py taking tail_num besides.
BindModes ==
    {"ipaddress", "domain", "rpz", "rpz_domain", "record_ip", "record_domain",
     "record_type"}

PiModes == {"ipaddress", "domain", "blocklist"}

\* The arguments a query function is called with.
Args(mode) ==
    CASE mode = "ipaddress" -> Addresses \X Names
      [] mode = "domain" -> Names \X Addresses
      [] mode \in {"rpz", "record_ip"} -> Addresses \X {""}
      [] mode \in {"rpz_domain", "record_domain"} -> PlainNames \X {""}
      [] mode = "record_type" -> RecordTypes \X {""}

PiArgs(mode) ==
    CASE mode = "ipaddress" -> Addresses \X {""}
      [] mode = "domain" -> Names \X {""}
      [] mode = "blocklist" -> PlainNames \X {""}

\* tail_num: 0, one line, and the length of the longest file drawn.
TailCounts == {0, 1, MaxLines}

(***************************************************************************)
(* State                                                                   *)
(***************************************************************************)
VARIABLES
    prog,        \* the program run: "dnscl", "tail" (dnscl_tail.py), "pihole"
    file,        \* the lines of the log file, as bytes
    pc,          \* "idle", "scan" (in the loop), "done", "raised"; in main():
                 \* "prompt", "retry" (the file prompts), "menu", "exit"
    query,       \* the function called and its arguments
    syslog,      \* the lines the loop iterates over
    pos,         \* how many of them the loop has taken
    dict1,       \* the function's first dictionary
    dict2,       \* its second dictionary (dnscl.py dnscl_domain: domain_dict)
    list1,       \* its first list
    list2,       \* its second list
    line_count,
    accepted,    \* history: the positions in syslog of the lines counted
    exc,         \* the exception that ended the call, "" for none
    report,      \* what the function prints after the loop
    printed,     \* the lines of the secondary lists, in the order printed
    hash_seed,   \* the seed of the process's string hashes
    readable,    \* whether the path names a regular file that can be read
    read_len,    \* history: the number of lines of the file when it was read
    interactive, \* whether the program was started without arguments
    choice       \* the last input at the menu prompt, "" before the first

vars ==
    <<prog, file, pc, query, syslog, pos, dict1, dict2, list1, list2,
      line_count, accepted, exc, report, printed, hash_seed, readable, read_len,
      interactive, choice>>

NoQuery == [mode |-> "", a1 |-> "", a2 |-> "", n |-> 0]

NoReport ==
    [total |-> 0, results |-> <<>>, results2 |-> <<>>, distinct |-> 0,
     secondary |-> {}]

Init ==
    /\ prog \in {"dnscl", "tail", "pihole"}
    /\ readable \in BOOLEAN
    /\ file \in IF ~readable THEN {<<>>}
                ELSE IF prog = "pihole" THEN PiFiles ELSE BindFiles
    /\ interactive \in IF prog = "tail" THEN {FALSE} ELSE BOOLEAN
    /\ pc = IF ~interactive THEN "idle"
            ELSE IF prog = "dnscl" THEN "prompt" ELSE "menu"
    /\ choice = ""
    /\ query = NoQuery
    /\ syslog = <<>>
    /\ pos = 0
    /\ dict1 = <<>>
    /\ dict2 = <<>>
    /\ list1 = <<>>
    /\ list2 = <<>>
    /\ line_count = 0
    /\ accepted = <<>>
    /\ exc = ""
    /\ report = NoReport
    /\ printed = <<>>
    /\ hash_seed = SeedNotUsed
    /\ read_len = 0

\* The locals with line_count left at 1, as if a count had carried over.
Locals0_stale ==
    [d1 |-> <<>>, d2 |-> <<>>, l1 |-> <<>>, l2 |-> <<>>, count |-> 1,
     accepted |-> <<>>, exc |-> ""]

\* The locals of a query function before its loop: defaultdict(int), [], 0.
Locals0 ==
    [d1 |-> <<>>, d2 |-> <<>>, l1 |-> <<>>, l2 |-> <<>>, count |-> 0,
     accepted |-> <<>>, exc |-> ""]

\* The first lines of every query function: the locals start empty.
Enter(q, lines) ==
    /\ pc \in {"idle", "menu"}
    /\ pc' = "scan"
    /\ query' = q
    /\ syslog' = lines
    /\ pos' = 0
    /\ dict1' = Locals0.d1
    /\ dict2' = Locals0.d2
    /\ list1' = Locals0.l1
    /\ list2' = Locals0.l2
    /\ line_count' = Locals0.count
    /\ accepted' = Locals0.accepted
    /\ exc' = Locals0.exc
    /\ report' = NoReport
    /\ printed' = <<>>
    /\ read_len' = Len(file)
    /\ UNCHANGED <<prog, file, hash_seed, readable, interactive>>

\* open(filename) raises before the function has printed anything.
OpenFails(q) ==
    /\ pc \in {"idle", "menu"}
    /\ pc' = "raised"
    /\ exc' = OSError
    /\ query' = q
    /\ UNCHANGED <<prog, file, syslog, pos, dict1, dict2, list1, list2, line_count,
                   accepted, report, printed, hash_seed, readable, read_len,
                   interactive>>

\* dnscl.py: a query function is called; the loop reads the whole file.
CallDnscl ==
    /\ prog = "dnscl"
    /\ pc = "idle"
    /\ UNCHANGED choice
    /\ \E mode \in BindModes : \E args \in Args(mode) :
           LET q == [mode |-> mode, a1 |-> args[1], a2 |-> args[2], n |-> 0]
           IN IF readable THEN Enter(q, file) ELSE OpenFails(q)

\* dnscl_tail.py: a query function is called with tail_num.  When tail
\* cannot read the file it writes to stderr and nothing to stdout, and its
\* exit status is not looked at.
CallTail ==
    /\ prog = "tail"
    /\ pc = "idle"
    /\ UNCHANGED choice
    /\ \E mode \in BindModes : \E args \in Args(mode) : \E tail_num \in TailCounts :
           Enter([mode |-> mode, a1 |-> args[1], a2 |-> args[2], n |-> tail_num],
                 IF readable THEN tail_source(file, tail_num) ELSE <<>>)

\* dnscl_pihole.py: a query function is called.
CallPihole ==
    /\ prog = "pihole"
    /\ pc = "idle"
    /\ UNCHANGED choice
    /\ \E mode \in PiModes : \E args \in PiArgs(mode) :
           LET q == [mode |-> mode, a1 |-> args[1], a2 |-> args[2], n |-> 0]
           IN IF readable THEN Enter(q, file) ELSE OpenFails(q)

\* The text of a line of the line source as the program reads it.
Decode(p, bytes) ==
    IF p = "dnscl" THEN decode_latin1(bytes) ELSE decode_utf8(bytes)

\* The loop body of query function q.mode of program p on a decoded line.
Body(p, q, line) ==
    CASE p = "pihole" /\ q.mode = "ipaddress" -> pihole_dnscl_ipaddress(line, q.a1)
      [] p = "pihole" /\ q.mode = "domain" -> pihole_dnscl_domain(line, q.a1)
      [] p = "pihole" /\ q.mode = "blocklist" -> pihole_dnscl_blocklist(line, q.a1)
      [] p = "dnscl" /\ q.mode = "ipaddress" -> dnscl_ipaddress(line, q.a1, q.a2)
      [] p = "tail" /\ q.mode = "ipaddress" -> tail_dnscl_ipaddress(line, q.a1, q.a2)
      [] p = "dnscl" /\ q.mode = "domain" -> dnscl_domain(line, q.a1, q.a2)
      [] p = "tail" /\ q.mode = "domain" -> tail_dnscl_domain(line, q.a1, q.a2)
      [] p # "pihole" /\ q.mode = "rpz" -> dnscl_rpz(line, q.a1)
      [] p # "pihole" /\ q.mode = "rpz_domain" -> dnscl_rpz_domain(line, q.a1)
      [] p # "pihole" /\ q.mode = "record_ip" -> dnscl_record_ip(line, q.a1)
      [] p # "pihole" /\ q.mode = "record_domain" -> dnscl_record_domain(line, q.a1)
      [] p # "pihole" /\ q.mode = "record_type" -> dnscl_record_type(line, q.a1)

\* What the next line of the source does: decoding it may raise.
LineEffect(p, q, bytes) ==
    LET line == Decode(p, bytes)
    IN IF IsExc(line) THEN Raise(line) ELSE Body(p, q, line)

\* LineEffect for every program, query and line of the inputs, worked out once.
Programs == {"dnscl", "tail", "pihole"}

QueriesOf(p) ==
    IF p = "pihole"
    THEN {[mode |-> m, a1 |-> a[1], a2 |-> a[2]] : <<m, a>> \in
              UNION {{<<m, a>> : a \in PiArgs(m)} : m \in PiModes}}
    ELSE {[mode |-> m, a1 |-> a[1], a2 |-> a[2]] : <<m, a>> \in
              UNION {{<<m, a>> : a \in Args(m)} : m \in BindModes}}

LinesOf(p) == IF p = "pihole" THEN PiLines ELSE BindLines

EffectTable ==
    [p \in Programs |->
        [q \in QueriesOf(p) |-> [l \in LinesOf(p) |-> LineEffect(p, q, l)]]]

EffectOf(p, q, bytes) ==
    EffectTable[p][[mode |-> q.mode, a1 |-> q.a1, a2 |-> q.a2]][bytes]

\* Whether the bytes of a line are no valid UTF-8.
Undecodable == [l \in BindLines \cup PiLines |-> decode_utf8(l) = UnicodeDecodeError]

\* What taking line i of lines does.  dnscl_pihole.py iterates over a text
\* file opened as UTF-8, which is decoded a buffer at a time: the files of
\* the model fit in one buffer, so that a byte that is no UTF-8 anywhere in
\* the file raises when the first line is taken.
NextEffect(p, q, lines, i) ==
    IF p = "pihole" /\ \E j \in i..Len(lines) : Undecodable[lines[j]]
    THEN Raise(UnicodeDecodeError)
    ELSE EffectOf(p, q, lines[i])

\* The loop body of dnscl_api.py's dnscl_ipaddress for every pair of
\* arguments and every line of the inputs.
ApiEffectTable ==
    [args \in Args("ipaddress") |->
        [l \in BindLines |-> api_dnscl_ipaddress(decode_latin1(l), args[1], args[2])]]

\* One iteration of the loop.
ScanLine ==
    /\ pc = "scan"
    /\ pos < Len(syslog)
    /\ LET e == NextEffect(prog, query, syslog, pos + 1)
       IN IF e.exc # ""
          THEN /\ pc' = "raised"
               /\ exc' = e.exc
               /\ UNCHANGED <<pos, dict1, dict2, list1, list2, line_count, accepted>>
          ELSE /\ pos' = pos + 1
               /\ dict1' = DictIncrAll(dict1, e.d1)
               /\ dict2' = DictIncrAll(dict2, e.d2)
               /\ list1' = list1 \o e.l1
               /\ list2' = list2 \o e.l2
               /\ line_count' = line_count + e.count
               /\ accepted' = IF e.count > 0 THEN Append(accepted, pos + 1)
                              ELSE accepted
               /\ UNCHANGED <<pc, exc>>
    /\ UNCHANGED <<prog, file, query, syslog, report, printed, hash_seed, readable,
                   read_len, interactive, choice>>

\* MakeReport with line_count printed where the number of keys belongs.
MakeReport_total_for_distinct(p, q, d1, d2, l1, l2, count) ==
    [total |-> count,
     results |-> IF p = "pihole" THEN group_sort(l1) ELSE sort_dict(d1),
     results2 |-> IF p = "dnscl" /\ q.mode = "domain" /\ q.a1 # ""
                  THEN sort_dict(d2) ELSE <<>>,
     distinct |-> count,
     secondary |->
         CASE p = "tail" /\ q.mode = "domain" /\ q.a1 # "" -> SetOf(l1)
           [] p = "pihole" /\ q.mode = "domain" /\ q.a1 # "" -> SetOf(l2)
           [] p # "pihole" /\ q.mode \in {"rpz_domain", "record_ip"} /\ q.a1 # ""
                -> SetOf(l1)
           [] p # "pihole" /\ q.mode = "record_domain" /\ q.a1 # ""
                -> SetOf(l1) \cup SetOf(l2)
           [] p # "pihole" /\ q.mode = "record_type" -> SetOf(l1)
           [] OTHER -> {}]

\* After the loop: the ranked results and the figures of the summary.
MakeReport(p, q, d1, d2, l1, l2, count) ==
    [total |-> count,
     results |-> IF p = "pihole" THEN group_sort(l1) ELSE sort_dict(d1),
     results2 |-> IF p = "dnscl" /\ q.mode = "domain" /\ q.a1 # ""
                  THEN sort_dict(d2) ELSE <<>>,
     distinct |-> IF p = "pihole" THEN Cardinality(SetOf(l1)) ELSE Len(d1),
     secondary |->
         CASE p = "tail" /\ q.mode = "domain" /\ q.a1 # "" -> SetOf(l1)
           [] p = "pihole" /\ q.mode = "domain" /\ q.a1 # "" -> SetOf(l2)
           [] p # "pihole" /\ q.mode \in {"rpz_domain", "record_ip"} /\ q.a1 # ""
                -> SetOf(l1)
           [] p # "pihole" /\ q.mode = "record_domain" /\ q.a1 # ""
                -> SetOf(l1) \cup SetOf(l2)
           [] p # "pihole" /\ q.mode = "record_type" -> SetOf(l1)
           [] OTHER -> {}]

\* The lines printed below the ranked results: the distinct values of the
\* secondary lists.
SecondaryLines(p, q, l1, l2, seed) ==
    CASE p = "tail" /\ q.mode = "domain" /\ q.a1 # "" -> SortedSeq(SetOf(l1))
      [] p = "pihole" /\ q.mode = "domain" /\ q.a1 # "" -> SortedSeq(SetOf(l2))
      [] p # "pihole" /\ q.mode \in {"rpz_domain", "record_ip"} /\ q.a1 # ""
           -> SortedSeq(SetOf(l1))
      [] p # "pihole" /\ q.mode = "record_domain" /\ q.a1 # ""
           -> SortedSeq(SetOf(l2)) \o SortedSeq(SetOf(l1))
      [] p # "pihole" /\ q.mode = "record_type" -> set_iteration(SetOf(l1), seed)
      [] OTHER -> <<>>

\* Whether the function iterates over a set without sorting it.
IteratesSet(p, q) == p # "pihole" /\ q.mode = "record_type"

\* sorted(set(domain_list)) raises TypeError when the list holds None next
\* to a string; only the domain_list of dnscl_record_ip can hold None.
SortedRaises(p, q, l1) ==
    /\ p # "pihole" /\ q.mode = "record_ip" /\ q.a1 # ""
    /\ None \in SetOf(l1)
    /\ SetOf(l1) # {None}

\* What print_results has printed by then: the total and the ranked results.
ReportBeforeRaise(p, q, d1, d2, l1, l2, count) ==
    [NoReport EXCEPT !.total = count,
                     !.results = MakeReport(p, q, d1, d2, l1, l2, count).results]

\* After the loop, to the end of the function.
Finish ==
    /\ pc = "scan"
    /\ pos = Len(syslog)
    /\ IF IteratesSet(prog, query) /\ hash_seed = SeedNotUsed
       THEN hash_seed' \in HashSeeds
       ELSE hash_seed' = hash_seed
    /\ IF SortedRaises(prog, query, list1)
       THEN /\ pc' = "raised"
            /\ exc' = TypeError
            /\ report' = ReportBeforeRaise(prog, query, dict1, dict2, list1, list2,
                                           line_count)
            /\ printed' = <<>>
       ELSE /\ pc' = "done"
            /\ exc' = exc
            /\ report' = MakeReport(prog, query, dict1, dict2, list1, list2,
                                    line_count)
            /\ printed' = SecondaryLines(prog, query, list1, list2, hash_seed')
    /\ UNCHANGED <<prog, file, query, syslog, pos, dict1, dict2, list1, list2,
                   line_count, accepted, readable, read_len, interactive, choice>>

\* The function returns to its caller: in interactive mode, the menu loop
\* of dnscl.py or dnscl_pihole.py.
Return ==
    /\ pc = "done"
    /\ prog \in {"dnscl", "pihole"}
    /\ pc' = IF interactive THEN "menu" ELSE "idle"
    /\ query' = NoQuery
    /\ syslog' = <<>>
    /\ pos' = 0
    /\ dict1' = <<>>
    /\ dict2' = <<>>
    /\ list1' = <<>>
    /\ list2' = <<>>
    /\ line_count' = 0
    /\ accepted' = <<>>
    /\ report' = NoReport
    /\ printed' = <<>>
    /\ read_len' = 0
    /\ UNCHANGED <<prog, file, exc, hash_seed, readable, interactive, choice>>

\* The line the resolver writes to the log while dnscl_tail.py is at work.
AppendedLine == QueryCom

\* The log grows, once, after tail has written the lines out: the list that
\* tail() returned is what the loop goes through.
LogAppend ==
    /\ prog = "tail"
    /\ readable
    /\ pc = "scan"
    /\ Len(file) = read_len
    /\ Len(file) < MaxLines
    /\ file' = Append(file, AppendedLine)
    /\ UNCHANGED <<prog, pc, query, syslog, pos, dict1, dict2, list1, list2,
                   line_count, accepted, exc, report, printed, hash_seed, readable,
                   read_len, interactive, choice>>

(***************************************************************************)
(* Interactive mode: the file prompt of dnscl.py and the menu loops         *)
(***************************************************************************)
\* dnscl.py: the default path to the syslog file.
FILENAME == "/var/log/syslog"

\* What the user types at a file prompt: nothing, the path of the log file,
\* a path that names no file.
PromptInputs == {"", FILENAME, "/var/log/missing"}

\* pathlib.Path(path).is_file(): the log file is the one file there may be.
is_file(path) == path = FILENAME /\ readable

\* Stands for SUPERSCRIPT TWO (U+00B2): str.isdigit() is true of it and
\* int() raises ValueError on it.
SuperscriptTwo == "^"

\* Python: s.isdigit()
isdigit(s) ==
    /\ s # ""
    /\ \A i \in 1..Len(s) : Ch(s, i) \in Digits \cup {SuperscriptTwo}

\* Whether int(s) raises ValueError, for s with s.isdigit().
int_raises(s) == \E i \in 1..Len(s) : Ch(s, i) \notin Digits

RECURSIVE int(_)
\* Python: int(s), for s of decimal digits.
int(s) ==
    IF s = "" THEN 0
    ELSE 10 * int(SubSeq(s, 1, Len(s) - 1))
             + (CHOOSE d \in 0..9 : Ch("0123456789", d + 1) = Ch(s, Len(s)))

\* What the user types at the menu prompt.
MenuInputs ==
    {"", "x", "0", "1", "2", "3", "4", "5", "6", "7", "8", "07", SuperscriptTwo}

\* The query function called for a choice of the menu.
ChoiceModes(p) ==
    IF p = "pihole" THEN <<"ipaddress", "domain", "blocklist">>
    ELSE <<"ipaddress", "domain", "rpz", "rpz_domain", "record_ip",
           "record_domain", "record_type">>

\* socket.inet_pton(AF_INET, address) succeeds: four decimal numbers up to
\* 255, of one to three digits and without a leading zero, with dots between.
is_valid_ipv4_address(address) ==
    LET parts == Split(address, ".")
    IN /\ Len(parts) = 4
       /\ \A k \in 1..4 :
              /\ Len(parts[k]) \in 1..3
              /\ ~int_raises(parts[k])
              /\ (Len(parts[k]) > 1 => Ch(parts[k], 1) # "0")
              /\ int(parts[k]) <= 255

\* socket.inet_pton(AF_INET6, address) succeeds: only on an address with a
\* colon, of hexadecimal digits, colons and dots.  (No address typed here has
\* a colon: the groups are not looked at.)
is_valid_ipv6_address(address) ==
    /\ In(":", address)
    /\ \A i \in 1..Len(address) : In(Ch(address, i), "0123456789abcdefABCDEF:.")

\* What the user types at the "ip address: " prompt of dnscl_pihole.py.
MenuAddresses == Addresses \cup {"10.0.0"}

\* The one input the menu reads for a choice.  dnscl_pihole.py asks for the ip
\* address again until it is empty or valid: the last one typed is passed on.
MenuArgs(p, mode) ==
    IF p = "pihole"
    THEN IF mode = "ipaddress"
         THEN {a \in MenuAddresses :
                   a = "" \/ is_valid_ipv4_address(a) \/ is_valid_ipv6_address(a)}
         ELSE {args[1] : args \in PiArgs(mode)}
    ELSE {args[1] : args \in Args(mode)}

\* dnscl.py: the first file prompt.  ENTER takes FILENAME as it is.
FilePrompt ==
    /\ prog = "dnscl"
    /\ pc = "prompt"
    /\ \E filename \in PromptInputs :
           pc' = IF filename # ""
                 THEN IF is_file(filename) THEN "menu" ELSE "retry"
                 ELSE "menu"
    /\ UNCHANGED <<prog, file, query, syslog, pos, dict1, dict2, list1, list2,
                   line_count, accepted, exc, report, printed, hash_seed, readable,
                   read_len, interactive, choice>>

\* dnscl.py: the prompt after an invalid path.  ENTER takes FILENAME, which is
\* checked like a path typed in.
RetryPrompt ==
    /\ prog = "dnscl"
    /\ pc = "retry"
    /\ \E typed \in PromptInputs :
           LET filename == IF typed = "" THEN FILENAME ELSE typed
           IN pc' = IF is_file(filename) THEN "menu" ELSE "retry"
    /\ UNCHANGED <<prog, file, query, syslog, pos, dict1, dict2, list1, list2,
                   line_count, accepted, exc, report, printed, hash_seed, readable,
                   read_len, interactive, choice>>

\* "Invalid input, try again.": the menu is printed and the prompt comes again.
MenuReprompt ==
    /\ interactive
    /\ pc = "menu"
    /\ \E c \in MenuInputs :
           /\ ~isdigit(c)
           /\ choice' = c
    /\ UNCHANGED <<prog, file, pc, query, syslog, pos, dict1, dict2, list1, list2,
                   line_count, accepted, exc, report, printed, hash_seed, readable,
                   read_len, interactive>>

\* int(choice) raises ValueError: dnscl.py does not catch it, dnscl_pihole.py
\* prints "Invalid input, exiting." and leaves the loop.
MenuValueError ==
    /\ interactive
    /\ pc = "menu"
    /\ \E c \in MenuInputs :
           /\ isdigit(c)
           /\ int_raises(c)
           /\ choice' = c
    /\ pc' = "exit"
    /\ exc' = IF prog = "pihole" THEN exc ELSE ValueError
    /\ UNCHANGED <<prog, file, query, syslog, pos, dict1, dict2, list1, list2,
                   line_count, accepted, report, printed, hash_seed, readable,
                   read_len, interactive>>

\* A choice of a query: one input is read and the function is called with it.
MenuQuery ==
    /\ interactive
    /\ pc = "menu"
    /\ \E c \in MenuInputs :
           /\ isdigit(c)
           /\ ~int_raises(c)
           /\ int(c) \in 1..Len(ChoiceModes(prog))
           /\ choice' = c
           /\ LET mode == ChoiceModes(prog)[int(c)]
              IN \E a1 \in MenuArgs(prog, mode) :
                     LET q == [mode |-> mode, a1 |-> a1, a2 |-> "", n |-> 0]
                     IN IF readable THEN Enter(q, file) ELSE OpenFails(q)

\* "Invalid choice, try again."
MenuInvalidChoice ==
    /\ interactive
    /\ pc = "menu"
    /\ \E c \in MenuInputs :
           /\ isdigit(c)
           /\ ~int_raises(c)
           /\ int(c) > Len(ChoiceModes(prog))
           /\ choice' = c
    /\ UNCHANGED <<prog, file, pc, query, syslog, pos, dict1, dict2, list1, list2,
                   line_count, accepted, exc, report, printed, hash_seed, readable,
                   read_len, interactive>>

\* Choice 0: break.
MenuExit ==
    /\ interactive
    /\ pc = "menu"
    /\ \E c \in MenuInputs :
           /\ isdigit(c)
           /\ ~int_raises(c)
           /\ int(c) = 0
           /\ choice' = c
    /\ pc' = "exit"
    /\ UNCHANGED <<prog, file, query, syslog, pos, dict1, dict2, list1, list2,
                   line_count, accepted, exc, report, printed, hash_seed, readable,
                   read_len, interactive>>

(***************************************************************************)
(* A query function as a whole: the loop over all of lines and the report. *)
(***************************************************************************)
RECURSIVE Loop(_, _, _, _, _)
\* The locals after the lines from position i on, st being the locals before.
Loop(p, q, lines, i, st) ==
    IF i > Len(lines) THEN st
    ELSE LET e == NextEffect(p, q, lines, i)
         IN IF e.exc # "" THEN [st EXCEPT !.exc = e.exc]
            ELSE Loop(p, q, lines, i + 1,
                      [d1 |-> DictIncrAll(st.d1, e.d1),
                       d2 |-> DictIncrAll(st.d2, e.d2),
                       l1 |-> st.l1 \o e.l1,
                       l2 |-> st.l2 \o e.l2,
                       count |-> st.count + e.count,
                       accepted |-> IF e.count > 0 THEN Append(st.accepted, i)
                                    ELSE st.accepted,
                       exc |-> ""])

\* The exception that ended the call ("" for none), the lines counted, and
\* the report (none when the call raised).
Outcome(p, q, lines) ==
    LET st == Loop(p, q, lines, 1, Locals0)
    IN [exc |-> IF st.exc = "" /\ SortedRaises(p, q, st.l1) THEN TypeError
                ELSE st.exc,
        accepted |-> st.accepted,
        report |-> IF st.exc # "" THEN NoReport
                   ELSE IF SortedRaises(p, q, st.l1)
                   THEN ReportBeforeRaise(p, q, st.d1, st.d2, st.l1, st.l2, st.count)
                   ELSE MakeReport(p, q, st.d1, st.d2, st.l1, st.l2, st.count)]

\* The fields of each line of the inputs, and its client address field.
FieldsOf == [l \in BindLines \cup PiLines |-> Split(Strip(l), " ")]

ClientFieldOf ==
    [l \in BindLines |->
        [query |-> find_ip_field(FieldsOf[l]), rpz |-> find_rpz_ip_field(FieldsOf[l])]]

HasSoa == [l \in BindLines |-> In("SOA", l)]

\* Whether a field of the line equals the anchor of the extractors.
HasAnchorField ==
    [l \in BindLines |->
        [query |-> FirstIndex(FieldsOf[l], "query:") # -1,
         rpz |-> FirstIndex(FieldsOf[l], "QNAME") # -1]]

\* The field extractors of each program, and what each returns on the
\* fields of each line of the inputs.
BindExtractors ==
    {"find_domain_field", "find_ip_field", "find_rpz_domain_field",
     "find_rpz_ip_field", "find_record_type_field"}

PiExtractors == {"domain", "ip_address", "block_domain"}

Extract(e, fields) ==
    CASE e = "find_domain_field" -> find_domain_field(fields)
      [] e = "find_ip_field" -> find_ip_field(fields)
      [] e = "find_rpz_domain_field" -> find_rpz_domain_field(fields)
      [] e = "find_rpz_ip_field" -> find_rpz_ip_field(fields)
      [] e = "find_record_type_field" -> find_record_type_field(fields)
      [] e \in PiExtractors -> find_field(fields, 0, e)

ExtractedOf ==
    [l \in BindLines \cup PiLines |->
        [e \in (IF l \in PiLines THEN PiExtractors ELSE BindExtractors) |->
            Extract(e, FieldsOf[l])]]

Next ==
    \/ CallDnscl
    \/ CallTail
    \/ CallPihole
    \/ ScanLine
    \/ LogAppend
    \/ Finish
    \/ Return
    \/ FilePrompt
    \/ RetryPrompt
    \/ MenuReprompt
    \/ MenuValueError
    \/ MenuQuery
    \/ MenuInvalidChoice
    \/ MenuExit

Spec == Init /\ [][Next]_vars

(***************************************************************************)
(* Properties                                                              *)
(***************************************************************************)
\* The keys of ranked results whose count is positive.
CountedKeys(items) == {items[i].k : i \in {j \in 1..Len(items) : items[j].n > 0}}

\* C1: in every mode, after each processed line and at the end of the scan,
\* the counts of each aggregate mapping sum to line_count: the dictionaries
\* of the BIND variants (both ip_dict and domain_dict in dnscl_domain), the
\* list the Pi-hole variant groups into counts, and the ranked results of
\* the report against its total.
SumEqualsLineCount ==
    /\ prog # "pihole" => SumCounts(dict1) = line_count
    /\ (prog = "dnscl" /\ query.mode = "domain") => SumCounts(dict2) = line_count
    /\ prog = "pihole" => Len(list1) = line_count
    /\ pc = "done" =>
           /\ report.total = line_count
           /\ SumCounts(report.results) = report.total
           /\ (prog = "dnscl" /\ query.mode = "domain" /\ query.a1 # "")
                  => SumCounts(report.results2) = report.total

\* A by-domain query of dnscl.py that counted two lines of two clients.
SumEqualsLineCountWitness ==
    /\ pc = "done"
    /\ prog = "dnscl"
    /\ query.mode = "domain"
    /\ report.total = 2
    /\ Len(report.results) = 2
    /\ Len(report.results2) = 2

\* C2: the distinct figure of the summary is the number of distinct keys of
\* the aggregate with a positive count, and no key of the aggregate or of
\* the ranked results has count 0.
DistinctIsNumberOfKeys ==
    /\ \A i \in 1..Len(dict1) : dict1[i].n > 0
    /\ \A i \in 1..Len(dict2) : dict2[i].n > 0
    /\ pc = "done" =>
           /\ \A i \in 1..Len(report.results) : report.results[i].n > 0
           /\ report.distinct = Cardinality(CountedKeys(report.results))
           /\ report.distinct =
                  IF prog = "pihole" THEN Cardinality(SetOf(list1))
                  ELSE Cardinality(CountedKeys(dict1))

\* A finished query with fewer distinct keys than counted lines.
DistinctIsNumberOfKeysWitness ==
    /\ pc = "done"
    /\ report.total = 2
    /\ report.distinct = 1

\* The lines counted so far.
AcceptedLines == {syslog[accepted[i]] : i \in 1..Len(accepted)}

BindProgs == {"dnscl", "tail"}

\* C3: a query of the tailing variant with tail_num = 0 reports what a scan
\* of every line of the file reports.  (It reads the last 60 lines.)
TailZeroScansWholeFile ==
    (prog = "tail" /\ pc = "done" /\ query.n = 0 /\ Len(file) = read_len)
        => report = Outcome("tail", query, file).report

\* C4: no counted line has fewer fields than the threshold: 13 for the
\* query modes, 12 for the policy modes.  (dnscl_domain, dnscl_record_domain
\* and dnscl_record_type do not test the number of fields.)
ShortLinesNeverCounted ==
    prog \in BindProgs =>
        \A l \in AcceptedLines :
            IF query.mode \in {"rpz", "rpz_domain"}
            THEN Len(FieldsOf[l]) >= 12
            ELSE Len(FieldsOf[l]) >= 13

\* C5: no line makes a scan end in an exception of the field extraction.
NoLineAbortsScan == exc \notin {IndexError, AttributeError, TypeError}

\* C6: in the modes filtered by client address, a line counted under a
\* non-empty address filter has a client address field that begins with the
\* filter and "#".  (The filter is searched for in the whole line.)
AddressFilterMatchesClientField ==
    (prog \in BindProgs /\ query.mode \in {"ipaddress", "rpz", "record_ip"}
        /\ query.a1 # "")
        => \A l \in AcceptedLines :
               LET client == IF query.mode = "rpz" THEN ClientFieldOf[l].rpz
                             ELSE ClientFieldOf[l].query
               IN client # None => StartsWith(client, query.a1 \o "#")

\* C7: in by-domain mode with a non-empty address cross-filter, every client
\* key is the filter.  (The filter is searched for in the whole line.)
CrossFilterSelectsClient ==
    (prog \in BindProgs /\ query.mode = "domain" /\ query.a2 # "")
        => \A i \in 1..Len(dict1) : dict1[i].k = query.a2

\* The queries that differ from the current one in the letter case of the
\* name filter alone; literal: neither filter holds a backslash escape.
NameModes == {"ipaddress", "domain"}

NameFilter(q) == IF q.mode = "domain" THEN q.a1 ELSE q.a2

WithNameFilter(q, f) ==
    IF q.mode = "domain" THEN [q EXCEPT !.a1 = f] ELSE [q EXCEPT !.a2 = f]

CaseVariants(q) ==
    {f \in Names : f # NameFilter(q) /\ Lower(f) = Lower(NameFilter(q))}

SameAsWithFilter(f) ==
    LET other == Outcome(prog, WithNameFilter(query, f), syslog)
    IN /\ pc = "raised" => other.exc = exc
       /\ pc = "done" =>
              /\ other.exc = ""
              /\ other.accepted = accepted
              /\ other.report.total = report.total
              /\ other.report.results = report.results
              /\ other.report.results2 = report.results2

NameQueryEnded ==
    /\ pc \in {"done", "raised"}
    /\ readable
    /\ query.mode \in NameModes
    /\ (prog = "pihole" => query.mode = "domain")

WildcardAcceptsSuperset ==
    \A l \in AcceptedLines :
        EffectOf(prog, [query EXCEPT !.a1 = ""], l).count = 1

\* C10: in both policy modes no line that contains "SOA" is counted.
SoaLineNeverCounted ==
    (prog \in BindProgs /\ query.mode \in {"rpz", "rpz_domain"})
        => \A l \in AcceptedLines : ~HasSoa[l]

\* A policy query has passed over a hit line with SOA, QNAME and 16 fields,
\* after counting the hit line before it.
SoaLineNeverCountedWitness ==
    /\ prog = "dnscl"
    /\ query.mode = "rpz"
    /\ query.a1 = "10.0.0.5"
    /\ syslog = <<RpzHit, RpzSoa>>
    /\ pos = 2
    /\ accepted = <<1>>

\* C11: a line none of whose fields equals the anchor is not counted, and
\* no aggregate holds the key None.  (dnscl_ipaddress and dnscl_record_ip
\* count the line under the key None.)
AnchorlessLineNotCounted ==
    prog \in BindProgs =>
        /\ \A l \in AcceptedLines :
               IF query.mode \in {"rpz", "rpz_domain"}
               THEN HasAnchorField[l].rpz
               ELSE HasAnchorField[l].query
        /\ None \notin Keys(dict1) \cup Keys(dict2) \cup SetOf(list1) \cup SetOf(list2)

\* The index of the anchor an extractor looks for, -1 for none, and the
\* offset of the field it returns.
AnchorIndex(e, fields) ==
    CASE e \in {"find_domain_field", "find_ip_field", "find_record_type_field"}
             -> FirstIndex(fields, "query:")
      [] e \in {"find_rpz_domain_field", "find_rpz_ip_field"}
             -> FirstIndex(fields, "QNAME")
      [] e \in {"domain", "ip_address"} -> FirstIndexContaining(fields, "query[")
      [] e = "block_domain" -> FirstIndexContaining(fields, "0.0.0.0")

AnchorOffset(e) ==
    CASE e \in {"find_domain_field", "domain"} -> 1
      [] e \in {"find_record_type_field", "find_rpz_domain_field", "ip_address"} -> 3
      [] e \in {"find_ip_field", "block_domain"} -> -2
      [] e = "find_rpz_ip_field" -> -3

\* The field at the anchor's index plus the offset, None outside the line.
FieldInRange(e, fields) ==
    LET at == AnchorIndex(e, fields)
        i == at + AnchorOffset(e)
    IN IF at # -1 /\ i \in 0..(Len(fields) - 1) THEN fields[i + 1] ELSE None

\* C12: on every line a scan reads, every extractor returns the field at
\* the anchor's index plus the offset, and None when that index is outside
\* the line.  (A negative index counts from the end of the line; an index
\* past the end raises IndexError.)
ExtractorStaysInRange ==
    pc # "idle" =>
        \A i \in 1..Len(syslog) :
            \A e \in DOMAIN ExtractedOf[syslog[i]] :
                ExtractedOf[syslog[i]][e] = FieldInRange(e, FieldsOf[syslog[i]])

\* No count of ranked is smaller than the count that follows it.
IsDescending(ranked) ==
    \A i \in 1..(Len(ranked) - 1) : ranked[i].n >= ranked[i + 1].n

\* ranked holds the items of the dictionary, each key once with its count.
IsPermutationOf(ranked, dict) ==
    /\ Len(ranked) = Len(dict)
    /\ SetOf(ranked) = SetOf(dict)
    /\ Cardinality(Keys(ranked)) = Len(ranked)

\* The values of a list, each with the number of its occurrences.
ItemsOfList(list) == {[k |-> v, n |-> Occurrences(list, v)] : v \in SetOf(list)}

\* C13: the ranked results of a report hold every key of the aggregate
\* exactly once, with its own count, and no count is smaller than the count
\* of the entry that follows it.
RankedIsSortedPermutation ==
    pc = "done" =>
        /\ IsDescending(report.results)
        /\ IsDescending(report.results2)
        /\ IF prog = "pihole"
           THEN /\ SetOf(report.results) = ItemsOfList(list1)
                /\ Len(report.results) = Cardinality(SetOf(list1))
           ELSE /\ IsPermutationOf(report.results, dict1)
                /\ report.results2 # <<>> => IsPermutationOf(report.results2, dict2)

\* A report whose two ranked entries are in the reverse of the order in
\* which the keys entered the dictionary.
RankedIsSortedPermutationWitness ==
    /\ pc = "done"
    /\ prog = "dnscl"
    /\ Len(dict1) = 2
    /\ dict1[1].n < dict1[2].n
    /\ report.results = <<dict1[2], dict1[1]>>

\* C14: on the three-line log of scenario A, by-client-address mode for
\* 10.0.0.5 reports total 3, the ranked results (example.com, 2),
\* (example.org, 1), and 2 distinct names.
ScenarioAReport ==
    (/\ pc = "done"
     /\ prog \in BindProgs
     /\ file = ScenarioA
     /\ query = [mode |-> "ipaddress", a1 |-> "10.0.0.5", a2 |-> "", n |-> 0])
        => /\ report.total = 3
           /\ report.results =
                  <<[k |-> "example.com", n |-> 2], [k |-> "example.org", n |-> 1]>>
           /\ report.distinct = 2

ScenarioAReportWitness ==
    /\ pc = "done"
    /\ prog = "dnscl"
    /\ file = ScenarioA
    /\ query = [mode |-> "ipaddress", a1 |-> "10.0.0.5", a2 |-> "", n |-> 0]
    /\ pos = 3
    /\ accepted = <<1, 2, 3>>
    /\ report.total = 3

\* C15: in exact-record-type mode with a non-empty filter, a line the scan
\* has read whose record type field is extracted is counted exactly when
\* the filter and the field are equal after upper-casing both.  (The field
\* of the line is compared as it is.)
RecordTypeMatchesAnyCase ==
    (prog \in BindProgs /\ query.mode = "record_type" /\ query.a1 # "")
        => \A i \in 1..pos :
               LET type_field == ExtractedOf[syslog[i]]["find_record_type_field"]
               IN (~IsExc(type_field) /\ type_field # None)
                      => (i \in SetOf(accepted)
                              <=> Upper(query.a1) = Upper(type_field))

\* C16: what a finished query has reported is what every run of the same
\* query over the same lines reports, whatever process runs it: the same
\* total and ranked results, and the same secondary lines in the same order.
\* (The clients of exact-record-type mode are printed in the iteration order
\* of a set, which differs between processes.)
SecondRunReportsTheSame ==
    pc = "done" =>
        /\ report = Outcome(prog, query, syslog).report
        /\ \A seed \in HashSeeds :
               printed = SecondaryLines(prog, query, list1, list2, seed)

\* C17: when the file cannot be read, no query function gets to print a
\* report.  (dnscl_tail.py scans the empty output of tail and reports a
\* total of 0.)
UnreadableFileNoReport ==
    ~readable => (pc # "done" /\ report = NoReport)

\* The name filters that are no valid regular expression.
InvalidNames == {f \in Names : ReCompile(f) = ReError}

\* C18: a query whose name filter is no valid regular expression takes no
\* line and prints no report.  (The filter is compiled when the first line
\* that passes the marker tests is matched against it.)
InvalidFilterFailsFirst ==
    (/\ pc # "idle"
     /\ readable
     /\ query.mode \in NameModes
     /\ (prog = "pihole" => query.mode = "domain")
     /\ NameFilter(query) \in InvalidNames)
        => (pos = 0 /\ pc # "done")

\* C19: no scan ends in a decoding error.  (dnscl_tail.py and
\* dnscl_pihole.py decode the lines as UTF-8, strictly.)
UndecodableLineNeverAborts == exc # UnicodeDecodeError

\* C20: with an empty first argument, the secondary collections of the
\* two-dimensional modes stay empty.  (Only dnscl_rpz_domain tests the
\* argument before it appends.)
WildcardLeavesSecondaryEmpty ==
    (/\ prog \in BindProgs
     /\ query.mode \in {"domain", "rpz_domain", "record_ip", "record_domain",
                        "record_type"}
     /\ pc # "idle"
     /\ query.a1 = "")
        => (dict2 = <<>> /\ list1 = <<>> /\ list2 = <<>>)

\* The count of key in a dictionary, 0 for a key it does not hold.
CountOf(dict, key) ==
    IF key \in Keys(dict)
    THEN dict[CHOOSE i \in 1..Len(dict) : dict[i].k = key].n
    ELSE 0

\* after is before with the count of exactly one key one higher.
OneKeyOneMore(before, after) ==
    \E key \in Keys(after) :
        /\ CountOf(after, key) = CountOf(before, key) + 1
        /\ \A other \in (Keys(before) \cup Keys(after)) \ {key} :
               CountOf(after, other) = CountOf(before, other)

\* C21: a step of the loop that takes a line either leaves line_count and
\* every dictionary and list as they were, or adds 1 to line_count and 1 to
\* the count of exactly one key of each dictionary the function fills (one
\* element to the list, in the Pi-hole variant).
LineChangesOneKeyByOne ==
    [][(pc = "scan" /\ pos' = pos + 1) =>
          \/ /\ line_count' = line_count
             /\ dict1' = dict1 /\ dict2' = dict2
             /\ list1' = list1 /\ list2' = list2
          \/ /\ line_count' = line_count + 1
             /\ IF prog = "pihole"
                THEN /\ Len(list1') = Len(list1) + 1
                     /\ SubSeq(list1', 1, Len(list1)) = list1
                     /\ dict1' = dict1
                ELSE OneKeyOneMore(dict1, dict1')
             /\ dict2' = dict2 \/ OneKeyOneMore(dict2, dict2')]_vars

\* A by-domain scan has rejected one line and counted the next.
LineChangesOneKeyByOneWitness ==
    /\ prog = "dnscl"
    /\ query.mode = "domain"
    /\ pc = "scan"
    /\ pos = 2
    /\ accepted = <<2>>
    /\ line_count = 1
    /\ Len(dict1) = 1 /\ dict1[1].n = 1
    /\ Len(dict2) = 1 /\ dict2[1].n = 1

\* C22: every call of a query function starts its loop with empty
\* dictionaries and lists and a line_count of 0, and the report of a call
\* in the whole-file and Pi-hole programs, whatever calls came before it in
\* the process, is the report of the same call on the same file alone.
EachCallStartsEmpty ==
    /\ (pc = "scan" /\ pos = 0) =>
           /\ dict1 = <<>> /\ dict2 = <<>>
           /\ list1 = <<>> /\ list2 = <<>>
           /\ line_count = 0
    /\ (pc = "done" /\ prog \in {"dnscl", "pihole"}) =>
           report = Outcome(prog, query, file).report

\* A by-client-address call has counted two lines in a process in which an
\* earlier exact-record-type call has printed its clients.
EachCallStartsEmptyWitness ==
    /\ prog = "dnscl"
    /\ pc = "done"
    /\ hash_seed # SeedNotUsed
    /\ query.mode = "ipaddress"
    /\ report.total = 2
    /\ Len(report.results) = 2

NameFieldOf(mode, line) ==
    IF mode = "rpz_domain"
    THEN SplitFirst(ExtractedOf[line]["find_rpz_domain_field"], "/")
    ELSE ExtractedOf[line]["find_domain_field"]

LastLinesAtRead(num_lines) ==
    LET first == IF num_lines >= read_len THEN 1 ELSE read_len - num_lines + 1
    IN SubSeq(file, first, read_len)

\* C25: a query of the tailing variant with tail_num > 0 goes through the
\* last min(tail_num, length) lines the file had when it was read, counts at
\* most tail_num lines, and reports what a scan of those lines reports, lines
\* appended since then left out.
TailReadsLastLines ==
    (prog = "tail" /\ readable /\ pc # "idle" /\ query.n > 0)
        => /\ syslog = LastLinesAtRead(query.n)
           /\ Len(syslog) <= query.n
           /\ line_count <= query.n
           /\ pc = "done" =>
                  /\ report.total <= query.n
                  /\ report = Outcome("tail", query, LastLinesAtRead(query.n)).report

\* A query with tail_num = 1 has counted the one line of the file and not
\* the line appended during the scan.
TailReadsLastLinesWitness ==
    /\ prog = "tail"
    /\ pc = "done"
    /\ query = [mode |-> "ipaddress", a1 |-> "", a2 |-> "", n |-> 1]
    /\ file = <<QueryUpper, AppendedLine>>
    /\ read_len = 1
    /\ report.total = 1
    /\ report.results = <<[k |-> "Example.COM", n |-> 1]>>

\* The position in syslog of the first counted line that gave key to the
\* first dictionary.
FirstCountedAt(key) ==
    LET at == {i \in SetOf(accepted) : EffectOf(prog, query, syslog[i]).d1 = <<key>>}
    IN CHOOSE i \in at : \A j \in at : i <= j

\* C26: in the reports of dnscl.py and dnscl_tail.py, of two entries with
\* the same count the one whose key was counted first comes first.
TiesKeepFirstOccurrenceOrder ==
    (prog \in BindProgs /\ pc = "done")
        => \A i, j \in 1..Len(report.results) :
               (i < j /\ report.results[i].n = report.results[j].n)
                   => FirstCountedAt(report.results[i].k)
                          < FirstCountedAt(report.results[j].k)

\* Two names with one query each, ranked in the order of the lines.
TiesKeepFirstOccurrenceOrderWitness ==
    /\ prog = "dnscl"
    /\ pc = "done"
    /\ query.mode = "ipaddress"
    /\ syslog = <<QueryUpper, QueryCom>>
    /\ report.results =
           <<[k |-> "Example.COM", n |-> 1], [k |-> "example.com", n |-> 1]>>

\* C27: on the lines a by-client-address query of dnscl.py has gone
\* through to the end, dnscl_api.py and dnscl_tail.py (the lines all inside
\* the tail window) count the same lines and build the same dictionary.  (dnscl_tail.py tests for "query" without the colon and decodes
\* the lines as UTF-8.)
VariantsCountTheSame ==
    (/\ prog = "dnscl"
     /\ readable
     /\ query.mode = "ipaddress"
     /\ pc = "done")
        => /\ \A i \in 1..Len(syslog) :
                  ApiEffectTable[<<query.a1, query.a2>>][syslog[i]]
                      = EffectOf("dnscl", query, syslog[i])
           /\ LET tailed == Outcome("tail", query, syslog)
              IN /\ tailed.exc = exc
                 /\ tailed.accepted = accepted
                 /\ tailed.report.results = report.results

\* dnscl_domain(d, file, a) of dnscl.py for the call dnscl_ipaddress(a,
\* file, d) in progress, on the same lines.
SwappedDomainQuery ==
    Outcome("dnscl",
            [mode |-> "domain", a1 |-> query.a2, a2 |-> query.a1, n |-> 0], syslog)

\* C28: when dnscl_ipaddress(a, file, d) of dnscl.py and dnscl_domain(d,
\* file, a) both go through the file to the end, every line the first
\* counts the second counts too, and the first total is no larger.
ByAddressWithinByDomain ==
    (/\ prog = "dnscl"
     /\ query.mode = "ipaddress"
     /\ pc = "done"
     /\ SwappedDomainQuery.exc = "")
        => /\ SetOf(accepted) \subseteq SetOf(SwappedDomainQuery.accepted)
           /\ report.total <= SwappedDomainQuery.report.total

\* dnscl_ipaddress has counted one line of two for an address and a name,
\* and dnscl_domain counts it too.
ByAddressWithinByDomainWitness ==
    /\ prog = "dnscl"
    /\ pc = "done"
    /\ query = [mode |-> "ipaddress", a1 |-> "10.0.0.5", a2 |-> "example", n |-> 0]
    /\ syslog = <<QueryCom, QueryOther>>
    /\ accepted = <<1>>
    /\ SwappedDomainQuery.exc = ""
    /\ SwappedDomainQuery.accepted = <<1>>

\* C29: in interactive mode of dnscl.py the menu loop is entered, and the
\* query functions are called from it, only with a filename that is a file.
MenuEnteredWithValidFile ==
    (/\ prog = "dnscl"
     /\ interactive
     /\ pc \notin {"prompt", "retry"})
        => is_file(FILENAME)

\* The input is a string of decimal digits that int() turns into n.
ChoiceIs(c, n) == isdigit(c) /\ ~int_raises(c) /\ int(c) = n

\* C30: in the menu loops of dnscl.py and dnscl_pihole.py a query function
\* is at work only after the choice of its mode, and the loop has ended only
\* after choice 0.
MenuLoopEndsOnChoiceZero ==
    interactive
        => /\ pc \in {"scan", "done"}
               => \E n \in 1..Len(ChoiceModes(prog)) :
                      /\ ChoiceIs(choice, n)
                      /\ query.mode = ChoiceModes(prog)[n]
           /\ pc = "exit" => ChoiceIs(choice, 0)

====
